---- MODULE Spec2Model ----
(***************************************************************************)
(* State-machine model of the OpenPSX2AmigaPadAdapter firmware             *)
(* (firmware/PS2_2_CD32.ino): the polling loop, the two interrupt service  *)
(* routines, the mode transitions and the pins they drive.                 *)
(*                                                                         *)
(* The main loop is split into steps at every access to state shared with  *)
(* the interrupt handlers (mode, wasMouse, lastSwitchedTime, buttonsLive,  *)
(* the clock interrupt attachment and the two button pins).  The handlers  *)
(* run atomically (the AVR masks interrupts inside an ISR) and may fire    *)
(* between any two steps of the main loop.  Code between noInterrupts ()   *)
(* and interrupts () is one step.                                          *)
(***************************************************************************)
EXTENDS Integers, Sequences, FiniteSets, TLC

(***************************************************************************)
(* Program constants                                                       *)
(***************************************************************************)
ANALOG_IDLE_VALUE == 127
ANALOG_DEAD_ZONE == 65
MOUSE_SLOW_DELTA == 60
MOUSE_FAST_DELTA == 6
TIMEOUT_CD32_MODE == 200
BTN_BLUE == 1
BTN_RED == 2
BTN_YELLOW == 4
BTN_GREEN == 8
BTN_FRONT_R == 16
BTN_FRONT_L == 32
BTN_START == 64
\* delay (300) of setup (): millis () when the strobe interrupt is attached
BootDelay == 300

\* enum PadMode
MODE_JOYSTICK == "JOYSTICK"
MODE_MOUSE == "MOUSE"
MODE_CD32 == "CD32"
PadMode == {MODE_JOYSTICK, MODE_MOUSE, MODE_CD32}

\* output pins, connected to the Amiga port
PIN_UP == "UP"
PIN_DOWN == "DOWN"
PIN_LEFT == "LEFT"
PIN_RIGHT == "RIGHT"
PIN_BTN1 == "BTN1"
PIN_BTN2 == "BTN2"
PIN_BTNREGOUT == PIN_BTN2
PIN_BTNREGCLK == PIN_BTN1
DirPins == {PIN_UP, PIN_DOWN, PIN_LEFT, PIN_RIGHT}
Pins == DirPins \cup {PIN_BTN1, PIN_BTN2}

LOW == 0
HIGH == 1

(***************************************************************************)
(* Bounds of the model                                                     *)
(***************************************************************************)
\* time advances in steps of TickMs milliseconds, MaxTicks times
TickMs == 250
MaxTicks == 1
\* data-line levels recorded per latch (8 data bits and the 2 trailer bits)
MaxBits == 10

(***************************************************************************)
(* Controller snapshots (ps2x.read_gamepad): pressed buttons and four axes *)
(***************************************************************************)
Snap(b, lx, ly, rx, ry) == [btn |-> b, lx |-> lx, ly |-> ly, rx |-> rx, ry |-> ry]

IdlePad == Snap({}, 127, 127, 127, 127)

\* the snapshots the polling loop draws from
Pads ==
    { IdlePad,
      Snap({}, 127, 127, 255, 127),
      Snap({"PAD_UP"}, 127, 127, 127, 127),
      Snap({"PAD_LEFT", "SELECT", "CROSS"}, 127, 127, 0, 127),
      Snap({"START", "SQUARE", "L1"}, 255, 127, 127, 127) }

Button(s, b) == b \in s.btn

(***************************************************************************)
(* Arduino pin primitives on a pin table [pin -> [ddr, port]]              *)
(***************************************************************************)
PinModeOutput(p, pin) == [p EXCEPT ![pin].ddr = "OUT"]

\* pinMode (pin, INPUT) clears the direction bit and the pull-up (port bit)
PinModeInput(p, pin) == [p EXCEPT ![pin] = [ddr |-> "IN", port |-> LOW]]

DigitalWrite(p, pin, v) == [p EXCEPT ![pin].port = v]

buttonPress(p, pin) == PinModeOutput(p, pin)

buttonRelease(p, pin) == PinModeInput(p, pin)

SetButton(p, pin, pressed) == IF pressed THEN buttonPress(p, pin) ELSE buttonRelease(p, pin)

(***************************************************************************)
(* Button mapping                                                          *)
(***************************************************************************)
Abs(x) == IF x < 0 THEN -x ELSE x

\* a horizontal reading whose dead zone excludes its boundary values
mapAnalogStickHorizontalWide(s) ==
    [left  |-> (s.lx - ANALOG_IDLE_VALUE) <= -ANALOG_DEAD_ZONE,
     right |-> (s.lx - ANALOG_IDLE_VALUE) >= ANALOG_DEAD_ZONE]

mapAnalogStickHorizontal(s) ==
    [left  |-> (s.lx - ANALOG_IDLE_VALUE) < -ANALOG_DEAD_ZONE,
     right |-> (s.lx - ANALOG_IDLE_VALUE) > ANALOG_DEAD_ZONE]

mapAnalogStickVertical(s) ==
    [up   |-> (s.ly - ANALOG_IDLE_VALUE) < -ANALOG_DEAD_ZONE,
     down |-> (s.ly - ANALOG_IDLE_VALUE) > ANALOG_DEAD_ZONE]

mapJoystickNormal(s) ==
    [up    |-> mapAnalogStickVertical(s).up \/ Button(s, "PAD_UP"),
     down  |-> mapAnalogStickVertical(s).down \/ Button(s, "PAD_DOWN"),
     left  |-> mapAnalogStickHorizontal(s).left \/ Button(s, "PAD_LEFT"),
     right |-> mapAnalogStickHorizontal(s).right \/ Button(s, "PAD_RIGHT"),
     b1    |-> Button(s, "SQUARE") \/ Button(s, "R1") \/ Button(s, "R2") \/ Button(s, "R3"),
     b2    |-> Button(s, "CROSS") \/ Button(s, "L1") \/ Button(s, "L2") \/ Button(s, "L3")]

\* Racing1 without "when braking, don't accelerate"
mapJoystickRacing1Both(s) ==
    [up    |-> Button(s, "PAD_UP") \/ Button(s, "SQUARE"),
     down  |-> Button(s, "PAD_DOWN") \/ Button(s, "CROSS"),
     left  |-> mapAnalogStickHorizontal(s).left \/ Button(s, "PAD_LEFT"),
     right |-> mapAnalogStickHorizontal(s).right \/ Button(s, "PAD_RIGHT"),
     b1    |-> Button(s, "TRIANGLE") \/ Button(s, "R1") \/ Button(s, "R2") \/ Button(s, "R3"),
     b2    |-> Button(s, "CIRCLE") \/ Button(s, "L1") \/ Button(s, "L2") \/ Button(s, "L3")]

mapJoystickRacing1(s) ==
    LET down == Button(s, "PAD_DOWN") \/ Button(s, "CROSS")
        up   == Button(s, "PAD_UP") \/ Button(s, "SQUARE")
    IN  [up    |-> IF down THEN FALSE ELSE up,
         down  |-> down,
         left  |-> mapAnalogStickHorizontal(s).left \/ Button(s, "PAD_LEFT"),
         right |-> mapAnalogStickHorizontal(s).right \/ Button(s, "PAD_RIGHT"),
         b1    |-> Button(s, "TRIANGLE") \/ Button(s, "R1") \/ Button(s, "R2") \/ Button(s, "R3"),
         b2    |-> Button(s, "CIRCLE") \/ Button(s, "L1") \/ Button(s, "L2") \/ Button(s, "L3")]

mapJoystickRacing2(s) ==
    LET down == Button(s, "PAD_DOWN") \/ Button(s, "CROSS") \/ Button(s, "L1") \/ Button(s, "L2")
        up   == Button(s, "PAD_UP") \/ Button(s, "R1") \/ Button(s, "R2")
    IN  [up    |-> IF down THEN FALSE ELSE up,
         down  |-> down,
         left  |-> mapAnalogStickHorizontal(s).left \/ Button(s, "PAD_LEFT"),
         right |-> mapAnalogStickHorizontal(s).right \/ Button(s, "PAD_RIGHT"),
         b1    |-> Button(s, "SQUARE") \/ Button(s, "R3"),
         b2    |-> Button(s, "TRIANGLE") \/ Button(s, "L3")]

\* Platform with the D-pad OR-ed into the analog up instead of overriding it
mapJoystickPlatformOr(s) ==
    [up    |-> mapAnalogStickVertical(s).up \/ Button(s, "PAD_UP") \/ Button(s, "CROSS"),
     down  |-> mapAnalogStickVertical(s).down \/ Button(s, "PAD_DOWN"),
     left  |-> mapAnalogStickHorizontal(s).left \/ Button(s, "PAD_LEFT"),
     right |-> mapAnalogStickHorizontal(s).right \/ Button(s, "PAD_RIGHT"),
     b1    |-> Button(s, "SQUARE") \/ Button(s, "R1") \/ Button(s, "R2") \/ Button(s, "R3"),
     b2    |-> Button(s, "TRIANGLE") \/ Button(s, "L1") \/ Button(s, "L2") \/ Button(s, "L3")]

mapJoystickPlatform(s) ==
    [up    |-> Button(s, "PAD_UP") \/ Button(s, "CROSS"),
     down  |-> mapAnalogStickVertical(s).down \/ Button(s, "PAD_DOWN"),
     left  |-> mapAnalogStickHorizontal(s).left \/ Button(s, "PAD_LEFT"),
     right |-> mapAnalogStickHorizontal(s).right \/ Button(s, "PAD_RIGHT"),
     b1    |-> Button(s, "SQUARE") \/ Button(s, "R1") \/ Button(s, "R2") \/ Button(s, "R3"),
     b2    |-> Button(s, "TRIANGLE") \/ Button(s, "L1") \/ Button(s, "L2") \/ Button(s, "L3")]

\* enum JoyButtonMapping, the values joyMappingFunc takes
JMAP_NORMAL == 1
JMAP_RACING1 == 2
JMAP_RACING2 == 3
JMAP_PLATFORM == 4

\* the call joyMappingFunc (j)
CallMapping(f, s) ==
    CASE f = JMAP_NORMAL   -> mapJoystickNormal(s)
      [] f = JMAP_RACING1  -> mapJoystickRacing1(s)
      [] f = JMAP_RACING2  -> mapJoystickRacing2(s)
      [] f = JMAP_PLATFORM -> mapJoystickPlatform(s)

(***************************************************************************)
(* CD32 button register                                                    *)
(***************************************************************************)
BitSet(v, bit) == (v \div bit) % 2 = 1

\* a clear that leaves the bit as it is
ClearBitKept(v, bit) == v

\* v &= ~bit on a byte
ClearBit(v, bit) == IF BitSet(v, bit) THEN v - bit ELSE v

\* the conditional clears of handleCD32Pad, in program order
Cd32Steps ==
    << [keys |-> {"START"}, bit |-> BTN_START],
       [keys |-> {"TRIANGLE"}, bit |-> BTN_GREEN],
       [keys |-> {"SQUARE"}, bit |-> BTN_RED],
       [keys |-> {"CROSS"}, bit |-> BTN_BLUE],
       [keys |-> {"CIRCLE"}, bit |-> BTN_YELLOW],
       [keys |-> {"L1", "L2", "L3"}, bit |-> BTN_FRONT_L],
       [keys |-> {"R1", "R2", "R3"}, bit |-> BTN_FRONT_R] >>

StepPressed(s, k) == (Cd32Steps[k].keys \cap s.btn) # {}

\* index of the first clear at or after k that the snapshot s performs
\* (Len (Cd32Steps) + 1 when there is none)
NextClear(s, k) ==
    LET c == {i \in k..Len(Cd32Steps) : StepPressed(s, i)}
    IN  IF c = {} THEN Len(Cd32Steps) + 1
        ELSE CHOOSE i \in c : \A m \in c : i <= m

\* an all-released image that leaves bit 7 clear
LiveResetLow == 255 - 128

\* the first store of the update: buttonsLive = 0xFF
LiveReset == 255

\* the value of buttonsLive at power-up
LiveInit == 128

\* what the strobe handler copies into the shift register
LatchValue(live) == live

\* the most significant bit of a byte
OutBitMsb(b) == (b \div 128) % 2

\* the level written to the data line and the shift that follows
OutBit(b) == b % 2

\* a right shift that brings a one in at the top
ShiftOutOnes(b) == b \div 2 + 128

ShiftOut(b) == b \div 2

(***************************************************************************)
(* State                                                                   *)
(***************************************************************************)
VARIABLES
    mode,               \* volatile PadMode mode
    wasMouse,           \* boolean wasMouse
    buttons,            \* volatile byte buttons: the register being shifted
    buttonsLive,        \* byte buttonsLive: the register being updated
    lastSwitchedTime,   \* unsigned long lastSwitchedTime
    joyMappingFunc,     \* the active mapping profile
    clkAttached,        \* onClockEdge is attached to the clock pin
    pins,               \* direction and output latch of the six host lines
    tx, ty,             \* static timers of handleMouse
    pad,                \* the controller snapshot of the current cycle
    pc,                 \* position of the main loop
    caller,             \* where toMouse / toJoystick return to
    cdStep,             \* next conditional clear of handleCD32Pad
    now,                \* millis ()
    padLine,            \* level of the mode-select line (PIN_PADMODE)
    \* history, read by no action
    latched,            \* value copied at the last strobe assertion (-1: none)
    dataOut,            \* levels written to the data line since that latch
    sessionPrior,       \* mode at the call of toCD32 that began the session
    cycleMode,          \* mode the cycle in progress dispatched on
    intr,               \* a strobe interrupt ran since the cycle began
    lastImage,          \* value of buttonsLive when its last update completed
    polled,             \* a polling cycle has completed
    lastEdge,           \* millis () at the last edge of the mode-select line
    flashes,            \* LED pulses flashLed emitted in the current polling cycle
    toggledAt           \* per direction line, millis () when handleMouse last
                        \* toggled it as a leading line (0: never)

shiftVars == << buttons, latched, dataOut >>
liveVars == << buttonsLive, cdStep, lastImage >>
mouseVars == << tx, ty, toggledAt >>
lineVars == << padLine, lastEdge >>
sessVars == << wasMouse, sessionPrior >>
cycVars == << cycleMode, intr, flashes >>

vars == << mode, lastSwitchedTime, joyMappingFunc, clkAttached, pins, pad, pc, caller,
           now, polled, shiftVars, liveVars, mouseVars, lineVars, sessVars, cycVars >>

(***************************************************************************)
(* Quadrature mouse emulation                                              *)
(***************************************************************************)
\* C integer division truncates toward zero
TruncDiv(a, b) == IF a >= 0 THEN a \div b ELSE -((-a) \div b)

\* Arduino map (), long arithmetic
map(x, inMin, inMax, outMin, outMax) ==
    TruncDiv((x - inMin) * (outMax - outMin), inMax - inMin) + outMin

\* an interpolation from the fast period up to the slow one
PeriodRising(d) == map(d, ANALOG_DEAD_ZONE, ANALOG_IDLE_VALUE, MOUSE_FAST_DELTA, MOUSE_SLOW_DELTA)

\* the toggle period handleMouse computes from a deflection magnitude
Period(d) == map(d, ANALOG_DEAD_ZONE, ANALOG_IDLE_VALUE, MOUSE_SLOW_DELTA, MOUSE_FAST_DELTA)

\* digitalRead of a host line: the latch of an output, else the level the
\* host's pull-up gives the floating line
DigitalRead(p, pin) == IF p[pin].ddr = "OUT" THEN p[pin].port ELSE HIGH

\* one axis of handleMouse whose trailing line does not wait for half a period
QuadAxisEager(p, t, v, posLead, posTrail, negLead, negTrail, ms) ==
    LET delta == v - ANALOG_IDLE_VALUE
        period == Period(Abs(delta))
        leadingPin == IF delta > 0 THEN posLead ELSE negLead
        trailingPin == IF delta > 0 THEN posTrail ELSE negTrail
        lead == ms - t >= period
        p1 == IF lead THEN DigitalWrite(p, leadingPin, 1 - DigitalRead(p, leadingPin)) ELSE p
        t1 == IF lead THEN ms ELSE t
        p2 == DigitalWrite(p1, trailingPin, 1 - DigitalRead(p1, leadingPin))
    IN  IF Abs(delta) > ANALOG_DEAD_ZONE
        THEN [pins |-> p2, t |-> t1]
        ELSE [pins |-> p, t |-> t]

\* one axis of handleMouse: v is the axis reading, t its timer, posLead /
\* posTrail the pins for a positive deflection, negLead / negTrail for a
\* negative one.  Gives the new pin table and timer.
QuadAxis(p, t, v, posLead, posTrail, negLead, negTrail, ms) ==
    LET delta == v - ANALOG_IDLE_VALUE
        period == Period(Abs(delta))
        leadingPin == IF delta > 0 THEN posLead ELSE negLead
        trailingPin == IF delta > 0 THEN posTrail ELSE negTrail
        lead == ms - t >= period
        p1 == IF lead THEN DigitalWrite(p, leadingPin, 1 - DigitalRead(p, leadingPin)) ELSE p
        t1 == IF lead THEN ms ELSE t
        p2 == IF ms - t1 >= period \div 2
              THEN DigitalWrite(p1, trailingPin, 1 - DigitalRead(p1, leadingPin))
              ELSE p1
    IN  IF Abs(delta) > ANALOG_DEAD_ZONE
        THEN [pins |-> p2, t |-> t1]
        ELSE [pins |-> p, t |-> t]

\* leadingPin and trailingPin of an axis for the reading v
LeadingPin(v, posLead, negLead) == IF v - ANALOG_IDLE_VALUE > 0 THEN posLead ELSE negLead
TrailingPin(v, posTrail, negTrail) == IF v - ANALOG_IDLE_VALUE > 0 THEN posTrail ELSE negTrail

\* the lines handleMouse treats as leading for the snapshot s
LeadingPins(s) ==
    (IF Abs(s.rx - ANALOG_IDLE_VALUE) > ANALOG_DEAD_ZONE
     THEN {LeadingPin(s.rx, PIN_RIGHT, PIN_DOWN)} ELSE {})
    \cup
    (IF Abs(s.ry - ANALOG_IDLE_VALUE) > ANALOG_DEAD_ZONE
     THEN {LeadingPin(s.ry, PIN_LEFT, PIN_UP)} ELSE {})

\* the output latch of a line differs between two pin tables
LevelChanged(p, q, pin) == p[pin].port # q[pin].port

\* toggle times after handleMouse took the pin table from p to q at time ms
ToggleTimes(at, p, q, s, ms) ==
    [pin \in DirPins |->
        IF pin \in LeadingPins(s) /\ LevelChanged(p, q, pin) THEN ms ELSE at[pin]]

(***************************************************************************)
(* Conditions of the handlers                                              *)
(***************************************************************************)
RightStickMoved(s) ==
    \/ Abs(s.rx - ANALOG_IDLE_VALUE) > ANALOG_DEAD_ZONE
    \/ Abs(s.ry - ANALOG_IDLE_VALUE) > ANALOG_DEAD_ZONE

DPadPressed(s) ==
    \/ Button(s, "PAD_UP") \/ Button(s, "PAD_DOWN")
    \/ Button(s, "PAD_LEFT") \/ Button(s, "PAD_RIGHT")

\* flashLed (n): the number of pulses it puts on the mode LED
flashLed(n) == n

\* Select held with one of the four profile buttons
ProfileButton(s) ==
    \/ Button(s, "SQUARE") \/ Button(s, "TRIANGLE")
    \/ Button(s, "CIRCLE") \/ Button(s, "CROSS")

\* a selection that takes Triangle for Racing2 and Circle for Racing1
SelectedMappingSwapped(s, f) ==
    IF Button(s, "SQUARE") THEN JMAP_NORMAL
    ELSE IF Button(s, "TRIANGLE") THEN JMAP_RACING2
    ELSE IF Button(s, "CIRCLE") THEN JMAP_RACING1
    ELSE IF Button(s, "CROSS") THEN JMAP_PLATFORM
    ELSE f

\* a selection that falls back to Normal when none of the four is pressed
SelectedMappingReset(s, f) ==
    IF Button(s, "SQUARE") THEN JMAP_NORMAL
    ELSE IF Button(s, "TRIANGLE") THEN JMAP_RACING1
    ELSE IF Button(s, "CIRCLE") THEN JMAP_RACING2
    ELSE IF Button(s, "CROSS") THEN JMAP_PLATFORM
    ELSE JMAP_NORMAL

\* the profile Select + button chooses (f when none of the four is pressed)
SelectedMapping(s, f) ==
    IF Button(s, "SQUARE") THEN JMAP_NORMAL
    ELSE IF Button(s, "TRIANGLE") THEN JMAP_RACING1
    ELSE IF Button(s, "CIRCLE") THEN JMAP_RACING2
    ELSE IF Button(s, "CROSS") THEN JMAP_PLATFORM
    ELSE f

\* the four direction lines written from a TwoButtonJoystick
WriteDirections(p, j) ==
    SetButton(SetButton(SetButton(SetButton(p, PIN_UP, j.up),
        PIN_DOWN, j.down), PIN_LEFT, j.left), PIN_RIGHT, j.right)

\* the two button lines, written with interrupts masked
WriteButtons(p, b1, b2) == SetButton(SetButton(p, PIN_BTN1, b1), PIN_BTN2, b2)

\* the direction signals of handleCD32Pad: left stick or D-pad
Cd32Directions(s) ==
    [up    |-> mapAnalogStickVertical(s).up \/ Button(s, "PAD_UP"),
     down  |-> mapAnalogStickVertical(s).down \/ Button(s, "PAD_DOWN"),
     left  |-> mapAnalogStickHorizontal(s).left \/ Button(s, "PAD_LEFT"),
     right |-> mapAnalogStickHorizontal(s).right \/ Button(s, "PAD_RIGHT")]

\* the register image handleCD32Pad builds from a snapshot
RECURSIVE ApplyClears(_, _, _)
ApplyClears(v, s, k) ==
    IF k > Len(Cd32Steps) THEN v
    ELSE ApplyClears(IF StepPressed(s, k) THEN ClearBit(v, Cd32Steps[k].bit) ELSE v, s, k + 1)

Cd32Image(s) == ApplyClears(LiveReset, s, 1)

\* the timeout test of loop ()
TimedOut(last, ms) == last > 0 /\ ms - last > TIMEOUT_CD32_MODE

(***************************************************************************)
(* Initial state: after setup ()                                           *)
(***************************************************************************)
Init ==
    /\ mode = MODE_JOYSTICK
    /\ wasMouse = FALSE
    /\ buttons = 0
    /\ buttonsLive = LiveInit
    /\ lastSwitchedTime = 0
    /\ joyMappingFunc = JMAP_NORMAL
    /\ clkAttached = FALSE
    /\ pins = [q \in Pins |-> [ddr |-> "IN", port |-> LOW]]
    /\ tx = 0
    /\ ty = 0
    /\ toggledAt = [q \in DirPins |-> 0]
    /\ pad = IdlePad
    /\ pc = "loop"
    /\ caller = "handler"
    /\ cdStep = 0
    /\ now = BootDelay
    /\ padLine \in {HIGH, LOW}
    /\ latched = -1
    /\ dataOut = << >>
    /\ sessionPrior = MODE_JOYSTICK
    /\ cycleMode = MODE_JOYSTICK
    /\ intr = FALSE
    /\ lastImage = LiveInit
    /\ polled = FALSE
    /\ lastEdge = 0
    /\ flashes = 0


(***************************************************************************)
(* toMouse, toJoystick, toCD32                                             *)
(***************************************************************************)
\* pinMode (dir, OUTPUT) of the four direction lines
DirectionsToOutput(p) ==
    PinModeOutput(PinModeOutput(PinModeOutput(PinModeOutput(p, PIN_UP),
        PIN_DOWN), PIN_LEFT), PIN_RIGHT)

\* digitalWrite (pin, LOW); pinMode (pin, INPUT)
ToHiZ(p, pin) == PinModeInput(DigitalWrite(p, pin, LOW), pin)

DirectionsToHiZ(p) == ToHiZ(ToHiZ(ToHiZ(ToHiZ(p, PIN_UP), PIN_DOWN), PIN_LEFT), PIN_RIGHT)

\* the pin roles toCD32 sets: data line output, clock line input
Cd32Pins(p) == PinModeInput(PinModeOutput(p, PIN_BTNREGOUT), PIN_BTNREGCLK)

\* the mode toCD32 records for the restoration
RecordWasMouse(m) == m = MODE_MOUSE

\* where loop () continues after toMouse () / toJoystick () return
AfterTransition == IF caller = "timeout" THEN "clearLST" ELSE "timeout"

\* first part of toMouse: direction pins and detachInterrupt
ToMouseDetach ==
    /\ pc = "toMouse"
    /\ pins' = DirectionsToOutput(pins)
    /\ clkAttached' = FALSE
    /\ pc' = "toMouseMode"
    /\ UNCHANGED << mode, lastSwitchedTime, joyMappingFunc, pad, caller, now, polled,
                    shiftVars, liveVars, mouseVars, lineVars, sessVars, cycVars >>

\* last statement of toMouse: mode = MODE_MOUSE
ToMouseMode ==
    /\ pc = "toMouseMode"
    /\ mode' = MODE_MOUSE
    /\ pc' = AfterTransition
    /\ caller' = "handler"
    /\ UNCHANGED << lastSwitchedTime, joyMappingFunc, clkAttached, pins, pad, now,
                    polled, shiftVars, liveVars, mouseVars, lineVars, sessVars, cycVars >>

\* first part of toJoystick: direction pins to Hi-Z and detachInterrupt
ToJoystickDetach ==
    /\ pc = "toJoystick"
    /\ pins' = DirectionsToHiZ(pins)
    /\ clkAttached' = FALSE
    /\ pc' = "toJoystickMode"
    /\ UNCHANGED << mode, lastSwitchedTime, joyMappingFunc, pad, caller, now, polled,
                    shiftVars, liveVars, mouseVars, lineVars, sessVars, cycVars >>

\* last statement of toJoystick: mode = MODE_JOYSTICK
ToJoystickMode ==
    /\ pc = "toJoystickMode"
    /\ mode' = MODE_JOYSTICK
    /\ pc' = AfterTransition
    /\ caller' = "handler"
    /\ UNCHANGED << lastSwitchedTime, joyMappingFunc, clkAttached, pins, pad, now,
                    polled, shiftVars, liveVars, mouseVars, lineVars, sessVars, cycVars >>

(***************************************************************************)
(* loop (): read_gamepad and the dispatch on mode                          *)
(***************************************************************************)
\* case MODE_JOYSTICK: handleJoystick up to its first access to shared state
LoopJoystick(P) ==
    /\ pc = "loop"
    /\ mode = MODE_JOYSTICK
    /\ \E s \in P :
        /\ pad' = s
        /\ IF RightStickMoved(s)
           THEN /\ pc' = "toMouse"
                /\ flashes' = 0
                /\ UNCHANGED << joyMappingFunc, pins >>
           ELSE IF Button(s, "SELECT")
           THEN /\ joyMappingFunc' = SelectedMapping(s, joyMappingFunc)
                /\ flashes' = IF ProfileButton(s)
                               THEN flashLed(SelectedMapping(s, joyMappingFunc))
                               ELSE 0
                /\ pc' = "timeout"
                /\ UNCHANGED pins
           ELSE /\ pins' = WriteDirections(pins, CallMapping(joyMappingFunc, s))
                /\ flashes' = 0
                /\ pc' = "joyBtn"
                /\ UNCHANGED joyMappingFunc
    /\ cycleMode' = mode
    /\ intr' = FALSE
    /\ UNCHANGED << mode, lastSwitchedTime, clkAttached, caller, now, polled,
                    shiftVars, liveVars, mouseVars, lineVars, sessVars >>

\* the button lines of handleJoystick, between noInterrupts and interrupts
JoyButtons ==
    /\ pc = "joyBtn"
    /\ LET j == CallMapping(joyMappingFunc, pad)
       IN  pins' = WriteButtons(pins, j.b1, j.b2)
    /\ pc' = "timeout"
    /\ UNCHANGED << mode, lastSwitchedTime, joyMappingFunc, clkAttached, pad, caller,
                    now, polled, shiftVars, liveVars, mouseVars, lineVars, sessVars,
                    cycVars >>

\* case MODE_MOUSE: handleMouse up to its first access to shared state
LoopMouse(P) ==
    /\ pc = "loop"
    /\ mode = MODE_MOUSE
    /\ \E s \in P :
        /\ pad' = s
        /\ IF DPadPressed(s)
           THEN /\ pc' = "toJoystick"
                /\ UNCHANGED << pins, mouseVars >>
           ELSE LET x == QuadAxis(pins, tx, s.rx, PIN_RIGHT, PIN_DOWN, PIN_DOWN, PIN_RIGHT, now)
                    y == QuadAxis(x.pins, ty, s.ry, PIN_LEFT, PIN_UP, PIN_UP, PIN_LEFT, now)
                IN  /\ pins' = y.pins
                    /\ tx' = x.t
                    /\ ty' = y.t
                    /\ toggledAt' = ToggleTimes(toggledAt, pins, y.pins, s, now)
                    /\ pc' = "mouseBtn"
    /\ cycleMode' = mode
    /\ intr' = FALSE
    /\ flashes' = 0
    /\ UNCHANGED << mode, lastSwitchedTime, joyMappingFunc, clkAttached, caller, now,
                    polled, shiftVars, liveVars, lineVars, sessVars >>

\* the button lines of handleMouse, between noInterrupts and interrupts
MouseButtons ==
    /\ pc = "mouseBtn"
    /\ pins' = WriteButtons(pins,
                  Button(pad, "L1") \/ Button(pad, "L2") \/ Button(pad, "L3"),
                  Button(pad, "R1") \/ Button(pad, "R2") \/ Button(pad, "R3"))
    /\ pc' = "timeout"
    /\ UNCHANGED << mode, lastSwitchedTime, joyMappingFunc, clkAttached, pad, caller,
                    now, polled, shiftVars, liveVars, mouseVars, lineVars, sessVars,
                    cycVars >>

\* case MODE_CD32: handleCD32Pad up to and including buttonsLive = 0xFF
LoopCD32(P) ==
    /\ pc = "loop"
    /\ mode = MODE_CD32
    /\ \E s \in P :
        /\ pad' = s
        /\ pins' = WriteDirections(pins, Cd32Directions(s))
        /\ buttonsLive' = LiveReset
        /\ IF NextClear(s, 1) > Len(Cd32Steps)
           THEN pc' = "timeout" /\ cdStep' = 0 /\ lastImage' = LiveReset
           ELSE pc' = "cd32" /\ cdStep' = NextClear(s, 1) /\ UNCHANGED lastImage
    /\ cycleMode' = mode
    /\ intr' = FALSE
    /\ flashes' = 0
    /\ UNCHANGED << mode, lastSwitchedTime, joyMappingFunc, clkAttached, caller, now,
                    polled, shiftVars, mouseVars, lineVars, sessVars >>

\* one buttonsLive &= ~BTN_x of handleCD32Pad
Cd32Clear ==
    /\ pc = "cd32"
    /\ buttonsLive' = ClearBit(buttonsLive, Cd32Steps[cdStep].bit)
    /\ IF NextClear(pad, cdStep + 1) > Len(Cd32Steps)
       THEN pc' = "timeout" /\ cdStep' = 0 /\ lastImage' = buttonsLive'
       ELSE pc' = "cd32" /\ cdStep' = NextClear(pad, cdStep + 1) /\ UNCHANGED lastImage
    /\ UNCHANGED << mode, lastSwitchedTime, joyMappingFunc, clkAttached, pins, pad,
                    caller, now, polled, shiftVars, mouseVars, lineVars, sessVars,
                    cycVars >>

(***************************************************************************)
(* loop (): the timeout that leaves CD32 mode                              *)
(***************************************************************************)
\* if (lastSwitchedTime > 0 && millis () - lastSwitchedTime > TIMEOUT_CD32_MODE);
\* when the test fails the cycle ends here
TimeoutCheck ==
    /\ pc = "timeout"
    /\ IF TimedOut(lastSwitchedTime, now)
       THEN pc' = "restore" /\ UNCHANGED << polled, cycVars >>
       ELSE /\ pc' = "loop" /\ polled' = TRUE
            /\ cycleMode' = MODE_JOYSTICK /\ intr' = FALSE /\ flashes' = 0
    /\ UNCHANGED << mode, lastSwitchedTime, joyMappingFunc, clkAttached, pins, pad,
                    caller, now, shiftVars, liveVars, mouseVars, lineVars, sessVars >>

\* if (wasMouse) toMouse (); else toJoystick ();
Restore ==
    /\ pc = "restore"
    /\ caller' = "timeout"
    /\ pc' = IF wasMouse THEN "toMouse" ELSE "toJoystick"
    /\ UNCHANGED << mode, lastSwitchedTime, joyMappingFunc, clkAttached, pins, pad,
                    now, polled, shiftVars, liveVars, mouseVars, lineVars, sessVars,
                    cycVars >>

\* lastSwitchedTime = 0; the cycle ends here
ClearSwitched ==
    /\ pc = "clearLST"
    /\ lastSwitchedTime' = 0
    /\ pc' = "loop"
    /\ polled' = TRUE
    /\ cycleMode' = MODE_JOYSTICK
    /\ intr' = FALSE
    /\ flashes' = 0
    /\ UNCHANGED << mode, joyMappingFunc, clkAttached, pins, pad, caller, now,
                    shiftVars, liveVars, mouseVars, lineVars, sessVars >>

(***************************************************************************)
(* Interrupt service routines                                              *)
(***************************************************************************)
\* onPadModeChange on a falling edge of the mode-select line
StrobeFall ==
    /\ padLine = HIGH
    /\ padLine' = LOW
    /\ IF mode # MODE_CD32
       THEN /\ clkAttached' = TRUE
            /\ wasMouse' = RecordWasMouse(mode)
            /\ sessionPrior' = mode
       ELSE UNCHANGED << clkAttached, sessVars >>
    /\ mode' = MODE_CD32
    /\ pins' = DigitalWrite(IF mode # MODE_CD32 THEN Cd32Pins(pins) ELSE pins,
                            PIN_BTNREGOUT, OutBit(LatchValue(buttonsLive)))
    /\ buttons' = ShiftOut(LatchValue(buttonsLive))
    /\ latched' = LatchValue(buttonsLive)
    /\ dataOut' = << OutBit(LatchValue(buttonsLive)) >>
    /\ lastEdge' = now
    /\ intr' = (pc # "loop")
    /\ UNCHANGED << lastSwitchedTime, joyMappingFunc, pad, pc, caller, now, polled,
                    liveVars, mouseVars, cycleMode, flashes >>

\* onPadModeChange on a rising edge of the mode-select line
StrobeRise ==
    /\ padLine = LOW
    /\ padLine' = HIGH
    /\ lastSwitchedTime' = now
    /\ lastEdge' = now
    /\ intr' = (pc # "loop")
    /\ UNCHANGED << mode, joyMappingFunc, clkAttached, pins, pad, pc, caller, now,
                    polled, shiftVars, liveVars, mouseVars, sessVars, cycleMode, flashes >>

\* onClockEdge: a rising edge of the clock line while the handler is attached
onClockEdge ==
    /\ clkAttached
    /\ pins' = DigitalWrite(pins, PIN_BTNREGOUT, OutBit(buttons))
    /\ buttons' = ShiftOut(buttons)
    /\ dataOut' = IF Len(dataOut) < MaxBits /\ latched # -1
                  THEN Append(dataOut, OutBit(buttons))
                  ELSE dataOut
    /\ UNCHANGED << mode, lastSwitchedTime, joyMappingFunc, clkAttached, pad, pc,
                    caller, now, polled, latched, liveVars, mouseVars, lineVars,
                    sessVars, cycVars >>

\* time passes
Tick ==
    /\ now + TickMs <= BootDelay + MaxTicks * TickMs
    /\ now' = now + TickMs
    /\ UNCHANGED << mode, lastSwitchedTime, joyMappingFunc, clkAttached, pins, pad,
                    pc, caller, polled, shiftVars, liveVars, mouseVars, lineVars,
                    sessVars, cycVars >>

Next ==
    \/ LoopJoystick(Pads)
    \/ JoyButtons
    \/ LoopMouse(Pads)
    \/ MouseButtons
    \/ LoopCD32(Pads)
    \/ Cd32Clear
    \/ ToMouseDetach
    \/ ToMouseMode
    \/ ToJoystickDetach
    \/ ToJoystickMode
    \/ TimeoutCheck
    \/ Restore
    \/ ClearSwitched
    \/ StrobeFall
    \/ StrobeRise
    \/ onClockEdge
    \/ Tick

Spec == Init /\ [][Next]_vars

(***************************************************************************)
(* The mapping profiles on their own: handleJoystick applied to a          *)
(* snapshot drawn from MapPads under each of the four profiles, with no    *)
(* interrupt and the right stick idle.                                     *)
(***************************************************************************)
\* buttons handleJoystick and the mapping functions may read, and Start
MapKeys ==
    {"PAD_UP", "PAD_DOWN", "PAD_LEFT", "PAD_RIGHT", "SQUARE", "CROSS", "TRIANGLE",
     "CIRCLE", "L1", "L2", "L3", "R1", "R2", "R3", "START", "SELECT"}

\* left-stick readings: the ends, the idle value and both sides of each
\* dead-zone boundary
MapAxis == {0, 61, 62, 127, 192, 193, 255}

\* at most MaxPressed buttons held at once
MaxPressed == 2

MapPads ==
    {Snap(b, lx, ly, ANALOG_IDLE_VALUE, ANALOG_IDLE_VALUE) :
        b \in {k \in SUBSET MapKeys : Cardinality(k) <= MaxPressed},
        lx \in MapAxis, ly \in MapAxis}

InitMap ==
    /\ mode = MODE_JOYSTICK
    /\ wasMouse = FALSE
    /\ buttons = 0
    /\ buttonsLive = LiveInit
    /\ lastSwitchedTime = 0
    /\ joyMappingFunc \in {JMAP_NORMAL, JMAP_RACING1, JMAP_RACING2, JMAP_PLATFORM}
    /\ clkAttached = FALSE
    /\ pins = [q \in Pins |-> [ddr |-> "IN", port |-> LOW]]
    /\ tx = 0
    /\ ty = 0
    /\ toggledAt = [q \in DirPins |-> 0]
    /\ pad \in MapPads
    /\ pc = "loop"
    /\ caller = "handler"
    /\ cdStep = 0
    /\ now = BootDelay
    /\ padLine = HIGH
    /\ latched = -1
    /\ dataOut = << >>
    /\ sessionPrior = MODE_JOYSTICK
    /\ cycleMode = MODE_JOYSTICK
    /\ intr = FALSE
    /\ lastImage = LiveInit
    /\ polled = FALSE
    /\ lastEdge = 0
    /\ flashes = 0

\* loop () with the controller held as it is
NextMap ==
    \/ LoopJoystick({pad})
    \/ JoyButtons
    \/ TimeoutCheck

SpecMap == InitMap /\ [][NextMap]_vars

\* a line is pressed when it is an output
Pressed(pin) == pins[pin].ddr = "OUT"

\* handleJoystick has written all six lines from the snapshot in pad
Mapped(f) == pc = "timeout" /\ mode = MODE_JOYSTICK /\ joyMappingFunc = f

StickUp(s) == s.ly < 62
StickDown(s) == s.ly > 192
StickLeft(s) == s.lx < 62
StickRight(s) == s.lx > 192

(***************************************************************************)
(* C11: under Racing1 and Racing2 the up and down lines are never pressed  *)
(* together: when down is pressed, up is released.                         *)
(***************************************************************************)
C11_BrakeDominates ==
    (Mapped(JMAP_RACING1) \/ Mapped(JMAP_RACING2))
        => ~(Pressed(PIN_UP) /\ Pressed(PIN_DOWN))

\* Racing1, D-pad up and D-pad down held: down pressed, up released
C11_Witness ==
    /\ Mapped(JMAP_RACING1)
    /\ pad.btn = {"PAD_UP", "PAD_DOWN"}
    /\ StickUp(pad)
    /\ Pressed(PIN_DOWN)
    /\ ~Pressed(PIN_UP)

(***************************************************************************)
(* The whole program polling snapshots that hold Select                    *)
(***************************************************************************)
ProfilePads ==
    { Snap({"SELECT"}, 127, 127, 127, 127),
      Snap({"SELECT", "TRIANGLE"}, 127, 127, 127, 127),
      Snap({"PAD_UP"}, 127, 127, 127, 127),
      Snap({}, 127, 127, 255, 127) }

NextProfile ==
    \/ LoopJoystick(ProfilePads)
    \/ JoyButtons
    \/ LoopMouse(ProfilePads)
    \/ MouseButtons
    \/ LoopCD32(ProfilePads)
    \/ Cd32Clear
    \/ ToMouseDetach
    \/ ToMouseMode
    \/ ToJoystickDetach
    \/ ToJoystickMode
    \/ TimeoutCheck
    \/ Restore
    \/ ClearSwitched
    \/ StrobeFall
    \/ StrobeRise
    \/ onClockEdge
    \/ Tick

SpecProfile == Init /\ [][NextProfile]_vars

(***************************************************************************)
(* Steps the properties speak of                                           *)
(***************************************************************************)
\* a strobe assertion: the step that latches the live register
LatchStep == padLine = HIGH /\ padLine' = LOW

\* the step that ends a polling cycle
CycleEnd == pc # "loop" /\ pc' = "loop"

\* the mode leaves SerialPad
LeavesCD32 == mode = MODE_CD32 /\ mode' # MODE_CD32

(***************************************************************************)
(* C1: after a strobe assertion that latched a register R with bit 7 set,  *)
(* and as long as no other strobe edge came, the levels written to the     *)
(* data line (one at the assertion, one per handled clock edge) are the    *)
(* leading part of R's bits 0..7, LSB first, followed by two 0 bits.       *)
(***************************************************************************)
ExpectedBits(r) == [i \in 1..MaxBits |-> IF i <= 8 THEN (r \div 2^(i - 1)) % 2 ELSE 0]

C2_LeavesOnlyAfterQuietTimeout ==
    [][LeavesCD32 => (padLine = HIGH /\ now - lastEdge > TIMEOUT_CD32_MODE)]_vars

(***************************************************************************)
(* C3: when the timeout branch of loop () ends a SerialPad session, the    *)
(* mode it writes is the mode that was active before the strobe assertion  *)
(* that began the session.                                                 *)
(***************************************************************************)
C3_RestoresSessionPrior ==
    [][(LeavesCD32 /\ caller = "timeout") => mode' = sessionPrior]_vars

(***************************************************************************)
(* C4: a SerialPad session whose mode-select line has returned to its      *)
(* deasserted level is eventually ended by the timeout.  Its safety part:  *)
(* the main loop is never at the top of a cycle in SerialPad mode with the *)
(* line deasserted and no deassertion time recorded, a state in which the  *)
(* timeout test can never succeed.                                         *)
(***************************************************************************)
C4_TimeoutStaysArmed ==
    ~(mode = MODE_CD32 /\ padLine = HIGH /\ lastSwitchedTime = 0 /\ pc = "loop")

(***************************************************************************)
(* C5: once the mode is SerialPad, the interrupt-masked button write of    *)
(* handleJoystick / handleMouse leaves the clock line and the data line    *)
(* alone.                                                                  *)
(***************************************************************************)
C5_ButtonPinsOwnedByCD32 ==
    [][(mode = MODE_CD32 /\ pc \in {"joyBtn", "mouseBtn"} /\ pc' = "timeout")
          => (pins'[PIN_BTNREGCLK] = pins[PIN_BTNREGCLK]
              /\ pins'[PIN_BTNREGOUT] = pins[PIN_BTNREGOUT])]_vars

(***************************************************************************)
(* C6: every value latched at a strobe assertion is a complete register    *)
(* image: the live register as its last completed update left it, or the   *)
(* image of the snapshot being processed, never a value in between.        *)
(***************************************************************************)
C6_LatchNeverTorn ==
    [][LatchStep => latched' \in {lastImage, Cd32Image(pad)}]_vars

(***************************************************************************)
(* C7: the live register always has bit 7 set, and so has every value      *)
(* latched into the shift register.                                        *)
(***************************************************************************)
C7_ReservedBitSet ==
    /\ BitSet(buttonsLive, 128)
    /\ latched # -1 => BitSet(latched, 128)

\* a latch taken while handleCD32Pad is between buttonsLive = 0xFF and its
\* first clear
C7_Witness ==
    /\ pc = "cd32"
    /\ Cd32Image(pad) # LiveReset
    /\ buttonsLive = LiveReset
    /\ padLine = LOW
    /\ latched = LiveReset
    /\ dataOut = << 1 >>

(***************************************************************************)
(* C8: the value latched at a strobe assertion and the polling cycles      *)
(***************************************************************************)
\* the register image of a snapshot, from the bit assignment: a bit is 0
\* exactly when one of its buttons is pressed, bit 7 is 1
Released(s, keys) == IF \E k \in keys : Button(s, k) THEN 0 ELSE 1

ImageOf(s) ==
    BTN_BLUE * Released(s, {"CROSS"}) + BTN_RED * Released(s, {"SQUARE"})
    + BTN_YELLOW * Released(s, {"CIRCLE"}) + BTN_GREEN * Released(s, {"TRIANGLE"})
    + BTN_FRONT_R * Released(s, {"R1", "R2", "R3"})
    + BTN_FRONT_L * Released(s, {"L1", "L2", "L3"})
    + BTN_START * Released(s, {"START"}) + 128

\* C8 as stated: the value latched at a strobe assertion that comes between
\* two polling cycles encodes the buttons of the last completed cycle,
\* whichever mode that cycle ran in.
C8_LatchIsLastCycle ==
    [][(LatchStep /\ polled /\ pc = "loop") => latched' = ImageOf(pad)]_vars

\* C8 amended: the live register is written only by a polling cycle that
\* runs in SerialPad mode; when such a cycle has finished its update the
\* register is the image of that cycle's snapshot; outside such a cycle it
\* is the image the last of them left, or 0x80 when none has run; a strobe
\* assertion latches the register as it is at that moment.
C8_RefreshedInCD32Only ==
    /\ [][buttonsLive' # buttonsLive => (cycleMode' = MODE_CD32 /\ padLine' = padLine)]_vars
    /\ [](pc = "timeout" /\ cycleMode = MODE_CD32 => buttonsLive = ImageOf(pad))
    /\ [](cycleMode # MODE_CD32 => buttonsLive = lastImage)
    /\ [](lastImage = LiveInit \/ \E s \in Pads : lastImage = ImageOf(s))
    /\ [][LatchStep => latched' = buttonsLive]_vars

\* after completed polling cycles the first latch still takes the initial
\* register, although the last snapshot has buttons pressed
C8_Witness ==
    /\ polled
    /\ mode = MODE_CD32
    /\ latched = LiveInit
    /\ ImageOf(pad) # LiveReset

(***************************************************************************)
(* C9: no host-facing line is ever an output driving high.  Checked where  *)
(* the lines are written by buttonPress / buttonRelease only: at the end   *)
(* of a polling cycle that ran handleJoystick undisturbed, none of the six *)
(* lines is an output driving high.                                        *)
(***************************************************************************)
DrivenHigh(pin) == pins[pin].ddr = "OUT" /\ pins[pin].port = HIGH

C9_NeverDrivenHigh ==
    (pc = "timeout" /\ cycleMode = MODE_JOYSTICK /\ mode = MODE_JOYSTICK /\ ~intr)
        => \A q \in Pins : ~DrivenHigh(q)

(***************************************************************************)
(* C10: a polling cycle that starts in Joystick mode with the right stick  *)
(* beyond the dead zone ends in Mouse mode, and one that starts in Mouse   *)
(* mode with a D-pad button pressed ends in Joystick mode (cycles that no  *)
(* interrupt handler ran in).                                              *)
(***************************************************************************)
C10_CycleEndsInNewMode ==
    [][(CycleEnd /\ ~intr) =>
          /\ (cycleMode = MODE_JOYSTICK /\ RightStickMoved(pad)) => mode' = MODE_MOUSE
          /\ (cycleMode = MODE_MOUSE /\ DPadPressed(pad)) => mode' = MODE_JOYSTICK]_vars

(***************************************************************************)
(* C12: in a Joystick-mode cycle with the right stick idle and Select      *)
(* held, Square, Triangle, Circle or Cross (one of them pressed) makes     *)
(* Normal, Racing1, Racing2 or Platform the active profile in that cycle   *)
(* and emits 1, 2, 3 or 4 pulses, also when that profile was active        *)
(* already.                                                                *)
(***************************************************************************)
\* Select held, right stick idle, and b the only profile button pressed
SelectOnly(s, b) ==
    /\ Button(s, "SELECT")
    /\ ~RightStickMoved(s)
    /\ s.btn \cap {"SQUARE", "TRIANGLE", "CIRCLE", "CROSS"} = {b}

\* the profile is ordinal and that many pulses were emitted
Acknowledged(f, n, ordinal) == f = ordinal /\ n = ordinal

C12_SelectAcknowledged ==
    [][(pc = "loop" /\ mode = MODE_JOYSTICK /\ pc' # "loop") =>
          /\ SelectOnly(pad', "SQUARE") => Acknowledged(joyMappingFunc', flashes', 1)
          /\ SelectOnly(pad', "TRIANGLE") => Acknowledged(joyMappingFunc', flashes', 2)
          /\ SelectOnly(pad', "CIRCLE") => Acknowledged(joyMappingFunc', flashes', 3)
          /\ SelectOnly(pad', "CROSS") => Acknowledged(joyMappingFunc', flashes', 4)]_vars

\* Platform selected again in a later cycle: four pulses, still Platform
C12_Witness ==
    /\ polled
    /\ pc = "timeout"
    /\ SelectOnly(pad, "CROSS")
    /\ joyMappingFunc = JMAP_PLATFORM
    /\ flashes = 4

(***************************************************************************)
(* C13: in a Joystick-mode polling cycle with Select held and the right    *)
(* stick idle, no step of the main loop writes any of the six lines: the   *)
(* step of handleJoystick and every later step of that cycle leave the     *)
(* pin table as it was.                                                    *)
(***************************************************************************)
SelectHeld(s) == Button(s, "SELECT") /\ ~RightStickMoved(s)

C13_SelectCycleWritesNoLine ==
    [][(\/ pc = "loop" /\ mode = MODE_JOYSTICK /\ pc' # "loop" /\ SelectHeld(pad')
        \/ pc # "loop" /\ pc' # pc /\ cycleMode = MODE_JOYSTICK /\ SelectHeld(pad) /\ ~intr)
          => pins' = pins]_vars

(***************************************************************************)
(* The toggle period on its own: the right stick held at a reading beyond  *)
(* the dead zone on both axes, Joystick mode handing over to Mouse mode    *)
(* and handleMouse applied to the snapshot.                                *)
(***************************************************************************)
\* every right-stick reading beyond the dead zone, both signs
PeriodAxis == (0 .. 61) \cup (193 .. 255)

PeriodPads ==
    {Snap({}, ANALOG_IDLE_VALUE, ANALOG_IDLE_VALUE, rx, ry) :
        rx \in PeriodAxis, ry \in PeriodAxis}

InitPeriod ==
    /\ mode = MODE_JOYSTICK
    /\ wasMouse = FALSE
    /\ buttons = 0
    /\ buttonsLive = LiveInit
    /\ lastSwitchedTime = 0
    /\ joyMappingFunc = JMAP_NORMAL
    /\ clkAttached = FALSE
    /\ pins = [q \in Pins |-> [ddr |-> "IN", port |-> LOW]]
    /\ tx = 0
    /\ ty = 0
    /\ toggledAt = [q \in DirPins |-> 0]
    /\ pad \in PeriodPads
    /\ pc = "loop"
    /\ caller = "handler"
    /\ cdStep = 0
    /\ now = BootDelay
    /\ padLine = HIGH
    /\ latched = -1
    /\ dataOut = << >>
    /\ sessionPrior = MODE_JOYSTICK
    /\ cycleMode = MODE_JOYSTICK
    /\ intr = FALSE
    /\ lastImage = LiveInit
    /\ polled = FALSE
    /\ lastEdge = 0
    /\ flashes = 0

\* loop () with the controller held as it is
NextPeriod ==
    \/ LoopJoystick({pad})
    \/ ToMouseDetach
    \/ ToMouseMode
    \/ LoopMouse({pad})
    \/ MouseButtons
    \/ TimeoutCheck

SpecPeriod == InitPeriod /\ [][NextPeriod]_vars

\* signed deflection of the right stick on each axis
DeltaX(s) == s.rx - ANALOG_IDLE_VALUE
DeltaY(s) == s.ry - ANALOG_IDLE_VALUE

Beyond(d) == Abs(d) > ANALOG_DEAD_ZONE

(***************************************************************************)
(* C14: of two deflections beyond the dead zone and of the same sign, the  *)
(* larger one never gets the longer toggle period.                         *)
(***************************************************************************)
C14_FasterNeverSlower ==
    LET d1 == DeltaX(pad)
        d2 == DeltaY(pad)
    IN  (Beyond(d1) /\ Beyond(d2) /\ (d1 > 0) = (d2 > 0) /\ Abs(d1) < Abs(d2))
            => Period(Abs(d2)) <= Period(Abs(d1))

\* handleMouse has run on the smallest and the largest deflection beyond the
\* dead zone: periods 60 and 6, both leading lines toggled
C14_Witness ==
    /\ mode = MODE_MOUSE
    /\ pc = "mouseBtn"
    /\ pad.rx = 193
    /\ pad.ry = 255
    /\ Period(Abs(DeltaX(pad))) = MOUSE_SLOW_DELTA
    /\ Period(Abs(DeltaY(pad))) = MOUSE_FAST_DELTA
    /\ tx = now
    /\ ty = now

(***************************************************************************)
(* The profiles' button tables, read off the six lines after               *)
(* handleJoystick has written them from the snapshot in pad                *)
(***************************************************************************)
\* handleJoystick took the mapping branch under profile f and has written
\* the direction and the button lines
Written(f) == Mapped(f) /\ ~Button(pad, "SELECT")

AnyOf(s, keys) == \E k \in keys : Button(s, k)

(***************************************************************************)
(* C15: under Racing2, Square presses button 1 and Cross presses button 2, *)
(* R1 / R2 press up (unless a brake is held) and L1 / L2 press down.       *)
(***************************************************************************)
C15_Racing2NaturalButtons ==
    Written(JMAP_RACING2) =>
        /\ Button(pad, "SQUARE") => Pressed(PIN_BTN1)
        /\ Button(pad, "CROSS") => Pressed(PIN_BTN2)
        /\ (AnyOf(pad, {"R1", "R2"}) /\ ~AnyOf(pad, {"PAD_DOWN", "CROSS", "L1", "L2"}))
              => Pressed(PIN_UP)
        /\ AnyOf(pad, {"L1", "L2"}) => Pressed(PIN_DOWN)

C17_PlatformTable ==
    Written(JMAP_PLATFORM) =>
        /\ Pressed(PIN_UP) <=> AnyOf(pad, {"PAD_UP", "CROSS"})
        /\ Pressed(PIN_DOWN) <=> (StickDown(pad) \/ Button(pad, "PAD_DOWN"))
        /\ Pressed(PIN_LEFT) <=> (StickLeft(pad) \/ Button(pad, "PAD_LEFT"))
        /\ Pressed(PIN_RIGHT) <=> (StickRight(pad) \/ Button(pad, "PAD_RIGHT"))
        /\ Pressed(PIN_BTN1) <=> AnyOf(pad, {"SQUARE", "R1", "R2", "R3"})
        /\ Pressed(PIN_BTN2) <=> AnyOf(pad, {"TRIANGLE", "L1", "L2", "L3"})

\* the left stick pushed up with Triangle held: up stays released, button 2
\* is pressed
C17_Witness ==
    /\ Written(JMAP_PLATFORM)
    /\ StickUp(pad)
    /\ pad.btn = {"TRIANGLE"}
    /\ ~Pressed(PIN_UP)
    /\ Pressed(PIN_BTN2)

(***************************************************************************)
(* The shift register on its own: onPadModeChange and onClockEdge applied  *)
(* to every value a byte-wide live register can hold                       *)
(***************************************************************************)
ShiftBytes == 0 .. 255

InitShift ==
    /\ mode = MODE_JOYSTICK
    /\ wasMouse = FALSE
    /\ buttons = 0
    /\ buttonsLive \in ShiftBytes
    /\ lastSwitchedTime = 0
    /\ joyMappingFunc = JMAP_NORMAL
    /\ clkAttached = FALSE
    /\ pins = [q \in Pins |-> [ddr |-> "IN", port |-> LOW]]
    /\ tx = 0
    /\ ty = 0
    /\ toggledAt = [q \in DirPins |-> 0]
    /\ pad = IdlePad
    /\ pc = "loop"
    /\ caller = "handler"
    /\ cdStep = 0
    /\ now = BootDelay
    /\ padLine = HIGH
    /\ latched = -1
    /\ dataOut = << >>
    /\ sessionPrior = MODE_JOYSTICK
    /\ cycleMode = MODE_JOYSTICK
    /\ intr = FALSE
    /\ lastImage = buttonsLive
    /\ polled = FALSE
    /\ lastEdge = 0
    /\ flashes = 0

\* the two interrupt handlers
NextShift ==
    \/ StrobeFall
    \/ onClockEdge
    \/ StrobeRise

SpecShift == InitShift /\ [][NextShift]_vars

\* the first ten levels of the data line since the latch, once they are out
TenBits(seq) == padLine = LOW /\ Len(dataOut) >= 10 => SubSeq(dataOut, 1, 10) = seq

C20_ProfileChangesOnlyBySelect ==
    /\ joyMappingFunc = JMAP_NORMAL
    /\ [][joyMappingFunc' # joyMappingFunc
            => /\ pc = "loop"
               /\ mode = MODE_JOYSTICK
               /\ SelectHeld(pad')
               /\ AnyOf(pad', {"SQUARE", "TRIANGLE", "CIRCLE", "CROSS"})]_vars

\* Racing1 was selected and is still active at the end of a SerialPad cycle
C20_Witness ==
    /\ joyMappingFunc = JMAP_RACING1
    /\ mode = MODE_CD32
    /\ cycleMode = MODE_CD32
    /\ pc = "timeout"
    /\ polled

(***************************************************************************)
(* The mouse emulation in milliseconds: Joystick mode hands over to Mouse  *)
(* mode and handleMouse polls the right stick while millis () advances     *)
(***************************************************************************)
\* millis () advances MouseTickMs at a time, up to MouseTicks steps after boot
MouseTickMs == 1
MouseTicks == 13

\* right stick idle, fully right (period 6), fully left (period 6), and
\* slightly less than fully right with fully down (periods 10 and 6)
MousePads ==
    { IdlePad,
      Snap({}, 127, 127, 255, 127),
      Snap({}, 127, 127, 0, 127),
      Snap({}, 127, 127, 250, 255) }

MouseTick ==
    /\ now + MouseTickMs <= BootDelay + MouseTicks * MouseTickMs
    /\ now' = now + MouseTickMs
    /\ UNCHANGED << mode, lastSwitchedTime, joyMappingFunc, clkAttached, pins, pad,
                    pc, caller, polled, shiftVars, liveVars, mouseVars, lineVars,
                    sessVars, cycVars >>

InitMouse ==
    /\ Init
    /\ padLine = HIGH

NextMouse ==
    \/ LoopJoystick(MousePads)
    \/ JoyButtons
    \/ ToMouseDetach
    \/ ToMouseMode
    \/ LoopMouse(MousePads)
    \/ MouseButtons
    \/ TimeoutCheck
    \/ MouseTick

SpecMouse == InitMouse /\ [][NextMouse]_vars

\* the handleMouse step of a Mouse-mode cycle; pad' is the snapshot it polls
MouseStep == pc = "loop" /\ mode = MODE_MOUSE /\ pc' = "mouseBtn"

\* what C19 asks of one axis in a handleMouse step: v is the reading, lead
\* and trail the leading and the trailing line
QuadratureStep(v, lead, trail) ==
    Beyond(v - ANALOG_IDLE_VALUE) =>
        /\ LevelChanged(pins, pins', lead)
              => now - toggledAt[lead] >= Period(Abs(v - ANALOG_IDLE_VALUE))
        /\ LevelChanged(pins, pins', trail)
              => now - toggledAt'[lead] >= Period(Abs(v - ANALOG_IDLE_VALUE)) \div 2
        /\ ~(LevelChanged(pins, pins', lead) /\ LevelChanged(pins, pins', trail))

(***************************************************************************)
(* C19: in a handleMouse step with an axis beyond the dead zone, the       *)
(* leading line of the axis toggles only if at least period has passed     *)
(* since its last toggle, the trailing line changes level only if at least *)
(* period / 2 has passed since the leading line's last toggle, and the two *)
(* never change in the same step; right / down lead for a positive         *)
(* deflection, the other line of the pair for a negative one.              *)
(***************************************************************************)
C19_QuadratureTiming ==
    [][MouseStep =>
         /\ QuadratureStep(pad'.rx, LeadingPin(pad'.rx, PIN_RIGHT, PIN_DOWN),
                           TrailingPin(pad'.rx, PIN_DOWN, PIN_RIGHT))
         /\ QuadratureStep(pad'.ry, LeadingPin(pad'.ry, PIN_LEFT, PIN_UP),
                           TrailingPin(pad'.ry, PIN_UP, PIN_LEFT))]_vars

\* stick fully right: the right line has toggled a second time, a period
\* after its first toggle, and half a period later the down line has
\* followed it to the opposite level
C19_Witness ==
    /\ mode = MODE_MOUSE
    /\ pc = "mouseBtn"
    /\ pad.rx = 255
    /\ toggledAt[PIN_RIGHT] >= BootDelay + MOUSE_FAST_DELTA
    /\ now - toggledAt[PIN_RIGHT] >= MOUSE_FAST_DELTA \div 2
    /\ toggledAt[PIN_DOWN] = 0
    /\ pins[PIN_DOWN].port # pins[PIN_RIGHT].port

(***************************************************************************)
(* C21: at the start of every polling cycle the clock-edge handler is      *)
(* attached iff the mode is SerialPad.                                     *)
(***************************************************************************)
C21_ClockAttachedIffCD32 ==
    pc = "loop" => (clkAttached <=> mode = MODE_CD32)

(***************************************************************************)
(* C22: the mode goes from Joystick to Mouse only in a cycle whose         *)
(* snapshot has the right stick beyond the dead zone, and from Mouse to    *)
(* Joystick only in a cycle whose snapshot has a D-pad button pressed; the *)
(* timeout restoration starts only in SerialPad mode.                      *)
(***************************************************************************)
C22_StickAndDPadOnly ==
    [][/\ (mode = MODE_JOYSTICK /\ mode' = MODE_MOUSE)
              => (caller = "handler" /\ RightStickMoved(pad))
       /\ (mode = MODE_MOUSE /\ mode' = MODE_JOYSTICK)
              => (caller = "handler" /\ DPadPressed(pad))
       /\ (pc = "timeout" /\ pc' = "restore") => mode = MODE_CD32]_vars

(***************************************************************************)
(* C23: when a handler of a Joystick or SerialPad cycle has pressed lines  *)
(* with buttonPress, every line it pressed is an output whose latch is     *)
(* low.  The direction lines are pressed by the first step of              *)
(* handleJoystick (mapping branch) and of handleCD32Pad, the button lines  *)
(* by the masked section of handleJoystick.                                *)
(***************************************************************************)
\* handleJoystick or handleCD32Pad writes the four direction lines
DirectionStep ==
    /\ pc = "loop"
    /\ \/ mode = MODE_JOYSTICK /\ pc' = "joyBtn"
       \/ mode = MODE_CD32

\* handleJoystick writes the two button lines, no interrupt since the cycle began
ButtonStep == pc = "joyBtn" /\ pc' = "timeout" /\ mode = MODE_JOYSTICK /\ ~intr

PressedLow(p, lines) == \A q \in lines : p[q].ddr = "OUT" => p[q].port = LOW

C23_PressDrivesLow ==
    [][/\ DirectionStep => PressedLow(pins', DirPins)
       /\ ButtonStep => PressedLow(pins', {PIN_BTN1, PIN_BTN2})]_vars

(***************************************************************************)
(* The polling loop with the controller held still and the mode-select     *)
(* line quiet: loop () runs forever on one snapshot                        *)
(***************************************************************************)
HoldKeys == {"PAD_UP", "PAD_LEFT", "SELECT", "CROSS", "L1"}
HoldAxis == {0, ANALOG_IDLE_VALUE, 255}

HoldPads ==
    {Snap(b, ANALOG_IDLE_VALUE, ANALOG_IDLE_VALUE, rx, ry) :
        b \in SUBSET HoldKeys, rx \in HoldAxis, ry \in HoldAxis}

InitHold ==
    /\ mode = MODE_JOYSTICK
    /\ wasMouse = FALSE
    /\ buttons = 0
    /\ buttonsLive = LiveInit
    /\ lastSwitchedTime = 0
    /\ joyMappingFunc = JMAP_NORMAL
    /\ clkAttached = FALSE
    /\ pins = [q \in Pins |-> [ddr |-> "IN", port |-> LOW]]
    /\ tx = 0
    /\ ty = 0
    /\ toggledAt = [q \in DirPins |-> 0]
    /\ pad \in HoldPads
    /\ pc = "loop"
    /\ caller = "handler"
    /\ cdStep = 0
    /\ now = BootDelay
    /\ padLine = HIGH
    /\ latched = -1
    /\ dataOut = << >>
    /\ sessionPrior = MODE_JOYSTICK
    /\ cycleMode = MODE_JOYSTICK
    /\ intr = FALSE
    /\ lastImage = LiveInit
    /\ polled = FALSE
    /\ lastEdge = 0
    /\ flashes = 0

\* loop () with the controller held as it is, no interrupt
NextHold ==
    \/ LoopJoystick({pad})
    \/ JoyButtons
    \/ LoopMouse({pad})
    \/ MouseButtons
    \/ ToMouseDetach
    \/ ToMouseMode
    \/ ToJoystickDetach
    \/ ToJoystickMode
    \/ TimeoutCheck

\* the processor keeps executing loop ()
SpecHold == InitHold /\ [][NextHold]_vars /\ WF_vars(NextHold)

(***************************************************************************)
(* C24: with the snapshot constant and no edge on the mode-select line,    *)
(* the mode eventually stops changing.                                     *)
(***************************************************************************)
C24_ModeSettles ==
    \/ <>[](mode = MODE_JOYSTICK)
    \/ <>[](mode = MODE_MOUSE)
    \/ <>[](mode = MODE_CD32)

====
